---------------------------- MODULE Spec2Model ----------------------------
(***************************************************************************)
(* Model of the live user-data-stream connection manager of                *)
(* ui/static/dashboard.js (section "binance_user_stream.js", lines         *)
(* 166-345) together with the connection indicator helper setConnDot of    *)
(* ui/static/app.js.                                                       *)
(*                                                                         *)
(* The browser runs every handler to completion, so each action below is   *)
(* one task of the event loop: a call made by the page (startLive, stop),  *)
(* a WebSocket event (open, message, error, close), a timer firing, or     *)
(* the arrival of the response of the start request (the continuation of   *)
(* the await in startBinanceUserStreamLive).                               *)
(*                                                                         *)
(* Durations are integers in units of 1/Scale ms, because the backoff      *)
(* factor 1.6 leaves the integers (1500, 2400, 3840, 6144, 9830.4,         *)
(* 15728.64, 20000); the IEEE doubles of the program differ from these     *)
(* values by less than 1e-11.                                              *)
(*                                                                         *)
(* The log (appendWsLog) is write-only and is not modelled.  The page is    *)
(* the dashboard: app.js is loaded (typeof setConnDot === "function") and  *)
(* the #exchangeStatus element exists, so every setConnDot call takes      *)
(* effect.  Timeouts fire in any order: the model keeps the delay each     *)
(* one was scheduled with but no clock.                                    *)
(***************************************************************************)
EXTENDS Integers, FiniteSets, Sequences, TLC

\* ------------------------------------------------------------ bounds
\* sockets that exist at the same time (live, closing, or closed and still
\* referenced by _userStreamWS)
MaxSock == 2
\* reconnect timeouts that exist at the same time
MaxTimer == 2
\* start requests awaiting their response at the same time
MaxPending == 2
\* balance-refresh timeouts pending at the same time
MaxRefresh == 2
\* identities of keepalive intervals (setInterval never reuses an id)
MaxKeepalive == 2

\* ---------------------------------------------------------- constants
Scale == 100
FloorMs == 1500
CeilMs == 20000

Floor == FloorMs * Scale
Ceil == CeilMs * Scale

Env == {"testnet", "production"}
\* the env the page starts the manager for (DOMContentLoaded, and the default
\* of every env parameter)
PageEnv == {"testnet"}
SockIds == 1..MaxSock
TimerIds == 1..MaxTimer
KeepaliveIds == 1..MaxKeepalive

Min(a, b) == IF a <= b THEN a ELSE b

VARIABLES
  userStreamWS,             \* _userStreamWS: 0 (null) or a socket id
  socks,                    \* the WebSocket objects the page created
  userStreamReconnectTimer, \* _userStreamReconnectTimer: 0 (null) or a timeout id
  timers,                   \* the reconnect timeouts (setTimeout of onclose)
  reconnectDelayMs,         \* _reconnectDelayMs, in 1/Scale ms
  streamStartedOnce,        \* _streamStartedOnce
  keepaliveTimer,           \* _keepaliveTimer: 0 (null) or an interval id
  intervals,                \* the keepalive intervals (setInterval)
  pendingStarts,            \* start requests in flight (awaited fetch)
  connDot,                  \* class of the #exchangeStatus element
  refreshTimers,            \* pending setTimeout(loadBalances, 400)
  session,                  \* history: the env of the page's last startLive call,
                            \* "none" before the first call and after stop()
  lastOp                    \* history: the handler that ran last

vars == <<userStreamWS, socks, userStreamReconnectTimer, timers, reconnectDelayMs,
          streamStartedOnce, keepaliveTimer, intervals, pendingStarts, connDot,
          refreshTimers, session, lastOp>>

\* ------------------------------------------------------------ objects
FreeSock == [st |-> "free", env |-> "none"]
FreeTimer == [st |-> "free", env |-> "none", delay |-> 0]
FreeInterval == [st |-> "free", env |-> "none"]

\* a start request: the env it was issued for, and whether stop() ran since
PendKinds == Env \X {"cur", "old"}
PendingCount == pendingStarts[<<"testnet", "cur">>] + pendingStarts[<<"testnet", "old">>]
                + pendingStarts[<<"production", "cur">>] + pendingStarts[<<"production", "old">>]

MinOf(S) == CHOOSE x \in S : \A y \in S : x <= y

\* ---------------------------------------------------------- envelopes
Absent == "absent"
\* the JSON text null: it parses, and reading msg.type of it throws a TypeError
\* that ends the handler
JsonNull == "null"
InnerTags == {"outboundAccountPosition", "balanceUpdate", "executionReport"}
NoFields == [json |-> TRUE, type |-> Absent, connected |-> Absent, e |-> Absent,
             eventType |-> Absent]
Envelopes ==
  {[NoFields EXCEPT !.json = FALSE]}
  \cup {[NoFields EXCEPT !.type = t] : t \in {"hello", "error", "listenKeyExpired", Absent, JsonNull}}
  \cup {[NoFields EXCEPT !.type = "status", !.connected = c] : c \in {"true", "false", Absent}}
  \cup {[NoFields EXCEPT !.type = "binance_event", !.e = a, !.eventType = b] :
           a \in InnerTags \cup {Absent}, b \in {"balanceUpdate", Absent}}

Op(name) == name

\* setConnDot without its "fail" branch
setConnDot_NoFailBranch(state) ==
  IF state = "ok" THEN "green" ELSE "pending"

\* -------------------------------------------------------- setConnDot
setConnDot(state) ==
  IF state = "ok" THEN "green"
  ELSE IF state = "fail" THEN "red"
  ELSE "pending"

\* ------------------------------------------------- keepalive scheduler
\* stopKeepalive: the intervals after clearInterval(_keepaliveTimer)
stopKeepalive(iv, h) ==
  [k \in KeepaliveIds |-> IF k = h THEN FreeInterval ELSE iv[k]]

\* the id setInterval returns: never the id of an interval that exists, nor the
\* one the handle held until now
NewInterval(iv, h) == MinOf({k \in KeepaliveIds : iv[k].st = "free" /\ k # h})

\* startKeepalive without its call of stopKeepalive
startKeepalive_NoStop(env) ==
  LET free == {k \in KeepaliveIds : intervals[k].st = "free" /\ k # keepaliveTimer}
      k == IF free = {} THEN keepaliveTimer ELSE MinOf(free)
  IN /\ intervals' = [intervals EXCEPT ![k] = [st |-> "active", env |-> env]]
     /\ keepaliveTimer' = k

\* startKeepalive(env): stopKeepalive, then a new interval
startKeepalive(env) ==
  LET iv == stopKeepalive(intervals, keepaliveTimer)
      k == NewInterval(iv, keepaliveTimer)
  IN /\ intervals' = [iv EXCEPT ![k] = [st |-> "active", env |-> env]]
     /\ keepaliveTimer' = k

\* --------------------------------------------------- closeUserStreamWS
\* the timeouts after `if (timer) { clearTimeout(timer); timer = null }`: a
\* pending timeout is cancelled, and one that fired already is forgotten
TimersAfterClose(tm, h) ==
  [t \in TimerIds |-> IF t = h THEN FreeTimer ELSE tm[t]]

\* the sockets after `if (ws) { ws.close(); ws = null }`: close() starts the
\* closing of a connecting or open socket and does nothing to a closed one
SocksAfterClose(sk, w) ==
  [s \in SockIds |->
     IF s # w THEN sk[s]
     ELSE IF sk[s].st \in {"connecting", "open"} THEN [sk[s] EXCEPT !.st = "closing"]
     ELSE IF sk[s].st = "closed" THEN FreeSock
     ELSE sk[s]]

\* closeUserStreamWS(); tm are the timeouts when it is called. The handles and
\* objects it leaves.
closeUserStreamWS(tm) ==
  [timers |-> TimersAfterClose(tm, userStreamReconnectTimer),
   timer |-> 0,
   socks |-> SocksAfterClose(socks, userStreamWS),
   ws |-> 0]

\* ------------------------------------------------- connectUserStreamWS
HasFreeSock(sk) == \E s \in SockIds : sk[s].st = "free"
NewSock(sk) == MinOf({s \in SockIds : sk[s].st = "free"})

\* connectUserStreamWS(env); tm are the timeouts when it is called
connectUserStreamWS(env, tm) ==
  LET c == closeUserStreamWS(tm)
      s == NewSock(c.socks)
  IN /\ HasFreeSock(c.socks)
     /\ timers' = c.timers
     /\ userStreamReconnectTimer' = c.timer
     /\ connDot' = setConnDot("pending")
     /\ socks' = [c.socks EXCEPT ![s] = [st |-> "connecting", env |-> env]]
     /\ userStreamWS' = s

\* the backoff without its ceiling
NextDelay_NoCeiling(d) == (d * 16) \div 10

\* the backoff with the factor 2
NextDelay_Double(d) == Min(d * 2, Ceil)

\* ------------------------------------------------ the reconnect backoff
NextDelay(d) == Min((d * 16) \div 10, Ceil)

\* -------------------------------------------------------------- Init
Init ==
  /\ userStreamWS = 0
  /\ socks = [s \in SockIds |-> FreeSock]
  /\ userStreamReconnectTimer = 0
  /\ timers = [t \in TimerIds |-> FreeTimer]
  /\ reconnectDelayMs = Floor
  /\ streamStartedOnce = FALSE
  /\ keepaliveTimer = 0
  /\ intervals = [k \in KeepaliveIds |-> FreeInterval]
  /\ pendingStarts = [k \in PendKinds |-> 0]
  /\ connDot = "none"
  /\ refreshTimers = 0
  /\ session = "none"
  /\ lastOp = Op("init")

\* The browser dispatches the error event and the close event of a failed
\* connection in one task: while a socket is between the two, no other handler
\* runs.
MidClose == \E s \in SockIds : socks[s].st = "errored"

\* startBinanceUserStreamLive issuing the start request on every call,
\* whether or not the stream was started already
startLive_AlwaysRequests(env, tm) ==
  /\ PendingCount < MaxPending
  /\ pendingStarts' = [pendingStarts EXCEPT ![<<env, "cur">>] = @ + 1]
  /\ connDot' = setConnDot("pending")
  /\ timers' = tm
  /\ UNCHANGED <<userStreamWS, socks, userStreamReconnectTimer, reconnectDelayMs,
                 streamStartedOnce, keepaliveTimer, intervals, refreshTimers>>

\* startBinanceUserStreamLive arming the keepalive again on every call of a
\* started stream
startLive_RearmsKeepalive(env, tm) ==
  IF ~streamStartedOnce
  THEN /\ PendingCount < MaxPending
       /\ pendingStarts' = [pendingStarts EXCEPT ![<<env, "cur">>] = @ + 1]
       /\ connDot' = setConnDot("pending")
       /\ timers' = tm
       /\ UNCHANGED <<userStreamWS, socks, userStreamReconnectTimer, reconnectDelayMs,
                      streamStartedOnce, keepaliveTimer, intervals, refreshTimers>>
  ELSE /\ connectUserStreamWS(env, tm)
       /\ startKeepalive(env)
       /\ UNCHANGED <<reconnectDelayMs, streamStartedOnce, pendingStarts, refreshTimers>>

\* startBinanceUserStreamLive arming the keepalive before the answer of the
\* start request
startLive_KeepaliveBeforeAck(env, tm) ==
  IF ~streamStartedOnce
  THEN /\ PendingCount < MaxPending
       /\ pendingStarts' = [pendingStarts EXCEPT ![<<env, "cur">>] = @ + 1]
       /\ connDot' = setConnDot("pending")
       /\ timers' = tm
       /\ startKeepalive(env)
       /\ UNCHANGED <<userStreamWS, socks, userStreamReconnectTimer, reconnectDelayMs,
                      streamStartedOnce, refreshTimers>>
  ELSE /\ connectUserStreamWS(env, tm)
       /\ UNCHANGED <<reconnectDelayMs, streamStartedOnce, keepaliveTimer, intervals,
                      pendingStarts, refreshTimers>>

\* ------------------------------------ startBinanceUserStreamLive(env)
\* up to the await of the start request, or to the end when the stream was
\* started already; tm are the timeouts when it is called
startBinanceUserStreamLive(env, tm) ==
  IF ~streamStartedOnce
  THEN /\ PendingCount < MaxPending
       /\ pendingStarts' = [pendingStarts EXCEPT ![<<env, "cur">>] = @ + 1]
       /\ connDot' = setConnDot("pending")
       /\ timers' = tm
       /\ UNCHANGED <<userStreamWS, socks, userStreamReconnectTimer, reconnectDelayMs,
                      streamStartedOnce, keepaliveTimer, intervals, refreshTimers>>
  ELSE /\ connectUserStreamWS(env, tm)
       /\ UNCHANGED <<reconnectDelayMs, streamStartedOnce, keepaliveTimer, intervals,
                      pendingStarts, refreshTimers>>

\* the page calls startBinanceUserStreamLive(env); it changes the env of a
\* session only by stop() and a new startLive (the env is fixed per session)
CallStartLive(env) ==
  /\ ~MidClose
  /\ session \in {"none", env}
  /\ startBinanceUserStreamLive(env, timers)
  /\ session' = env
  /\ lastOp' = Op("startLive")

\* ensureBinanceUserStreamStarted returned true: the rest of
\* startBinanceUserStreamLive
StartAcked(kind) ==
  /\ ~MidClose
  /\ pendingStarts[kind] > 0
  /\ pendingStarts' = [pendingStarts EXCEPT ![kind] = @ - 1]
  /\ streamStartedOnce' = TRUE
  /\ startKeepalive(kind[1])
  /\ connectUserStreamWS(kind[1], timers)
  /\ lastOp' = Op("startAcked")
  /\ UNCHANGED <<reconnectDelayMs, refreshTimers, session>>

\* the refused start without its `return`: it goes on as an acknowledged one
StartRefused_NoReturn(kind) ==
  /\ ~MidClose
  /\ pendingStarts[kind] > 0
  /\ pendingStarts' = [pendingStarts EXCEPT ![kind] = @ - 1]
  /\ streamStartedOnce' = TRUE
  /\ startKeepalive(kind[1])
  /\ connectUserStreamWS(kind[1], timers)
  /\ lastOp' = Op("startRefused")
  /\ UNCHANGED <<reconnectDelayMs, refreshTimers, session>>

\* ensureBinanceUserStreamStarted returned false (ok: false, or the fetch or
\* the parse of its answer threw)
StartRefused(kind) ==
  LET c == closeUserStreamWS(timers)
  IN /\ ~MidClose
     /\ pendingStarts[kind] > 0
     /\ pendingStarts' = [pendingStarts EXCEPT ![kind] = @ - 1]
     /\ connDot' = setConnDot("fail")
     /\ intervals' = stopKeepalive(intervals, keepaliveTimer)
     /\ keepaliveTimer' = 0
     /\ timers' = c.timers
     /\ userStreamReconnectTimer' = c.timer
     /\ socks' = c.socks
     /\ userStreamWS' = c.ws
     /\ lastOp' = Op("startRefused")
     /\ UNCHANGED <<reconnectDelayMs, streamStartedOnce, refreshTimers, session>>

\* ------------------------------------------------ stopBinanceUserStream
stopBinanceUserStream ==
  LET c == closeUserStreamWS(timers)
  IN /\ intervals' = stopKeepalive(intervals, keepaliveTimer)
     /\ keepaliveTimer' = 0
     /\ timers' = c.timers
     /\ userStreamReconnectTimer' = c.timer
     /\ socks' = c.socks
     /\ userStreamWS' = c.ws
     /\ streamStartedOnce' = FALSE
     /\ reconnectDelayMs' = Floor

\* the page calls stopBinanceUserStream(); the start requests in flight now
\* belong to a session that is over
CallStop ==
  /\ ~MidClose
  /\ stopBinanceUserStream
  /\ pendingStarts' = [k \in PendKinds |->
                         IF k[2] = "cur" THEN 0
                         ELSE pendingStarts[k] + pendingStarts[<<k[1], "cur">>]]
  /\ session' = "none"
  /\ lastOp' = Op("stop")
  /\ UNCHANGED <<connDot, refreshTimers>>

\* --------------------------------------------------- WebSocket events
\* onopen
OnOpen(s) ==
  /\ ~MidClose
  /\ socks[s].st = "connecting"
  /\ socks' = [socks EXCEPT ![s].st = "open"]
  /\ reconnectDelayMs' = Floor
  /\ lastOp' = Op("open")
  /\ UNCHANGED <<userStreamWS, userStreamReconnectTimer, timers, streamStartedOnce,
                 keepaliveTimer, intervals, pendingStarts, connDot, refreshTimers, session>>

\* the inner event type of a binance_event envelope:
\* data.e || data.eventType || "unknown_event"
EventType(m) ==
  IF m.e # Absent THEN m.e
  ELSE IF m.eventType # Absent THEN m.eventType
  ELSE "unknown_event"

\* onmessage taking a message that does not parse for a failure
DotAfterMessage_NonJsonFails(m, dot) ==
  IF ~m.json THEN setConnDot("fail")
  ELSE IF m.type = JsonNull THEN dot
  ELSE IF m.type = "hello" THEN dot
  ELSE IF m.type = "status" THEN setConnDot(IF m.connected = "true" THEN "ok" ELSE "fail")
  ELSE IF m.type = "error" THEN setConnDot("fail")
  ELSE IF m.type = "binance_event" THEN setConnDot("ok")
  ELSE dot

\* the indicator after onmessage
DotAfterMessage(m, dot) ==
  IF ~m.json THEN dot
  ELSE IF m.type = JsonNull THEN dot
  ELSE IF m.type = "hello" THEN dot
  ELSE IF m.type = "status" THEN setConnDot(IF m.connected = "true" THEN "ok" ELSE "fail")
  ELSE IF m.type = "error" THEN setConnDot("fail")
  ELSE IF m.type = "binance_event" THEN setConnDot("ok")
  ELSE dot

\* the refresh scheduled for balanceUpdate alone
SchedulesRefresh_OnlyBalanceUpdate(m) ==
  /\ m.json
  /\ m.type = "binance_event"
  /\ EventType(m) = "balanceUpdate"

\* whether onmessage calls setTimeout(loadBalances, 400)
SchedulesRefresh(m) ==
  /\ m.json
  /\ m.type = "binance_event"
  /\ EventType(m) \in {"outboundAccountPosition", "balanceUpdate"}

\* the name of the handler run for envelope m
MsgOp(m) == Op(IF m.json THEN m.type ELSE "nonjson")

\* onmessage; a socket dispatches messages only while it is open
OnMessage(s, m) ==
  /\ ~MidClose
  /\ socks[s].st = "open"
  /\ connDot' = DotAfterMessage(m, connDot)
  /\ IF SchedulesRefresh(m)
     THEN refreshTimers < MaxRefresh /\ refreshTimers' = refreshTimers + 1
     ELSE refreshTimers' = refreshTimers
  /\ lastOp' = MsgOp(m)
  /\ UNCHANGED <<userStreamWS, socks, userStreamReconnectTimer, timers, reconnectDelayMs,
                 streamStartedOnce, keepaliveTimer, intervals, pendingStarts, session>>

\* onerror that also schedules a reconnect, as onclose does
OnError_SchedulesReconnect(s) ==
  LET tm == [t \in TimerIds |->
               IF t = userStreamReconnectTimer /\ timers[t].st = "fired"
               THEN FreeTimer ELSE timers[t]]
      free == {t \in TimerIds : tm[t].st = "free"}
      t == MinOf(free)
  IN /\ ~MidClose
     /\ socks[s].st \in {"connecting", "open", "closing"}
     /\ free # {}
     /\ socks' = [socks EXCEPT ![s].st = "errored"]
     /\ connDot' = setConnDot("fail")
     /\ timers' = [tm EXCEPT ![t] = [st |-> "pending", env |-> socks[s].env,
                                     delay |-> reconnectDelayMs]]
     /\ userStreamReconnectTimer' = t
     /\ reconnectDelayMs' = NextDelay(reconnectDelayMs)
     /\ lastOp' = Op("error")
     /\ UNCHANGED <<userStreamWS, streamStartedOnce, keepaliveTimer, intervals,
                    pendingStarts, refreshTimers, session>>

\* onerror. The browser fires error and then close in one task when a
\* connection fails, so nothing runs between the two (see Next).
OnError(s) ==
  /\ ~MidClose
  /\ socks[s].st \in {"connecting", "open", "closing"}
  /\ socks' = [socks EXCEPT ![s].st = "errored"]
  /\ connDot' = setConnDot("fail")
  /\ lastOp' = Op("error")
  /\ UNCHANGED <<userStreamWS, userStreamReconnectTimer, timers, reconnectDelayMs,
                 streamStartedOnce, keepaliveTimer, intervals, pendingStarts,
                 refreshTimers, session>>

\* the timeouts once the handle no longer names timeout h: one that fired
\* already is forgotten, a pending one stays pending
TimersAfterOverwrite(tm, h) ==
  [t \in TimerIds |-> IF t = h /\ tm[t].st = "fired" THEN FreeTimer ELSE tm[t]]

HasFreeTimer(tm) == \E t \in TimerIds : tm[t].st = "free"
NewTimer(tm) == MinOf({t \in TimerIds : tm[t].st = "free"})

\* onclose of socket s
OnClose(s) ==
  LET tm == TimersAfterOverwrite(timers, userStreamReconnectTimer)
      t == NewTimer(tm)
  IN /\ socks[s].st \in {"connecting", "open", "closing", "errored"}
     /\ HasFreeTimer(tm)
     /\ connDot' = setConnDot("fail")
     /\ timers' = [tm EXCEPT ![t] = [st |-> "pending", env |-> socks[s].env,
                                     delay |-> reconnectDelayMs]]
     /\ userStreamReconnectTimer' = t
     /\ reconnectDelayMs' = NextDelay(reconnectDelayMs)
     /\ socks' = [socks EXCEPT ![s] = IF userStreamWS = s
                                      THEN [@ EXCEPT !.st = "closed"]
                                      ELSE FreeSock]
     /\ lastOp' = Op("close")
     /\ UNCHANGED <<userStreamWS, streamStartedOnce, keepaliveTimer, intervals,
                    pendingStarts, refreshTimers, session>>

\* ------------------------------------------------------------ timers
\* the reconnect timeout t fires: startBinanceUserStreamLive(env)
ReconnectFires(t) ==
  /\ ~MidClose
  /\ timers[t].st = "pending"
  /\ startBinanceUserStreamLive(timers[t].env,
        [timers EXCEPT ![t] = IF userStreamReconnectTimer = t
                              THEN [@ EXCEPT !.st = "fired"]
                              ELSE FreeTimer])
  /\ lastOp' = Op("reconnect")
  /\ UNCHANGED session

\* a tick of the keepalive interval k; whatever the answer, it is only logged
KeepaliveTick(k) ==
  /\ ~MidClose
  /\ intervals[k].st = "active"
  /\ lastOp' = Op("keepalive")
  /\ UNCHANGED <<userStreamWS, socks, userStreamReconnectTimer, timers, reconnectDelayMs,
                 streamStartedOnce, keepaliveTimer, intervals, pendingStarts, connDot,
                 refreshTimers, session>>

\* a refresh timeout fires: loadBalances()
RefreshFires ==
  /\ ~MidClose
  /\ refreshTimers > 0
  /\ refreshTimers' = refreshTimers - 1
  /\ lastOp' = Op("refresh")
  /\ UNCHANGED <<userStreamWS, socks, userStreamReconnectTimer, timers, reconnectDelayMs,
                 streamStartedOnce, keepaliveTimer, intervals, pendingStarts, connDot,
                 session>>

\* -------------------------------------------------------------- Next
Next ==
  \/ \E env \in PageEnv : CallStartLive(env)
  \/ CallStop
  \/ \E k \in PendKinds : StartAcked(k)
  \/ \E k \in PendKinds : StartRefused(k)
  \/ \E s \in SockIds : OnOpen(s)
  \/ \E s \in SockIds, m \in Envelopes : OnMessage(s, m)
  \/ \E s \in SockIds : OnError(s)
  \/ \E s \in SockIds : OnClose(s)
  \/ \E t \in TimerIds : ReconnectFires(t)
  \/ \E k \in KeepaliveIds : KeepaliveTick(k)
  \/ RefreshFires

Spec == Init /\ [][Next]_vars

\* ------------------------------------------------------- observations
\* the sockets that are connecting or open
LiveSocks == {s \in SockIds : socks[s].st \in {"connecting", "open"}}
PendingTimers == {t \in TimerIds : timers[t].st = "pending"}
ActiveIntervals == {k \in KeepaliveIds : intervals[k].st = "active"}
\* start requests in flight that were issued after the last stop()
CurPending == pendingStarts[<<"testnet", "cur">>] + pendingStarts[<<"production", "cur">>]
\* the indicator
Indicator ==
  IF connDot = "green" THEN "ok"
  ELSE IF connDot = "red" THEN "fail"
  ELSE IF connDot = "pending" THEN "pending"
  ELSE "unset"

\* nothing the manager owns exists
NoSocket == userStreamWS = 0 /\ LiveSocks = {}
NoReconnect == PendingTimers = {}
NoKeepalive == keepaliveTimer = 0 /\ ActiveIntervals = {}
\* no event of the manager is outstanding: no socket has an event to deliver,
\* no timeout or interval is scheduled and no start request is in flight
Quiet ==
  /\ \A s \in SockIds : socks[s].st \in {"free", "closed"}
  /\ PendingTimers = {}
  /\ ActiveIntervals = {}
  /\ PendingCount = 0

\* ----------------------------------------------------------------- C1
\* C1: right after stop() the manager has no live socket, no pending
\* reconnect timer, no active keepalive, started = false and reconnectDelay
\* at its floor, whatever the state stop() was called in.
C1_StopLeavesNothing ==
  lastOp = "stop" =>
    /\ NoSocket
    /\ NoReconnect
    /\ NoKeepalive
    /\ streamStartedOnce = FALSE
    /\ reconnectDelayMs = Floor

\* ----------------------------------------------------------------- C2
\* C2: in every reachable state at most one socket is connecting or open and
\* at most one reconnect timer is pending.
C2_AtMostOneSocketAndTimer ==
  /\ Cardinality(LiveSocks) <= 1
  /\ Cardinality(PendingTimers) <= 1

\* ----------------------------------------------------------------- C3
\* C3: without an intervening stop() the Stream Starter request is issued at
\* most once: a step issues it only when no request of the session is in
\* flight and none has succeeded (started = false).
C3_StartIssuedOnce ==
  [][CurPending' > CurPending => (CurPending = 0 /\ ~streamStartedOnce)]_vars

\* ----------------------------------------------------------------- C4
\* C4 as stated: reconnectDelay decreases only when a transport opens.
C4_DelayDropsOnlyOnOpen ==
  [][reconnectDelayMs' < reconnectDelayMs => lastOp' = "open"]_vars

\* C4 as amended: a close never decreases reconnectDelay, an open resets it to
\* the floor, it decreases only by an open or by stop() (which resets it to the
\* floor too), no other handler changes it, and it stays within
\* [1500 ms, 20000 ms].
C4_Backoff ==
  [][/\ lastOp' = "close" => reconnectDelayMs' >= reconnectDelayMs
     /\ lastOp' \in {"open", "stop"} => reconnectDelayMs' = Floor
     /\ reconnectDelayMs' < reconnectDelayMs => lastOp' \in {"open", "stop"}
     /\ reconnectDelayMs' # reconnectDelayMs => lastOp' \in {"close", "open", "stop"}
     /\ Floor <= reconnectDelayMs' /\ reconnectDelayMs' <= Ceil]_vars

\* a run of closes has grown the delay up to the ceiling
C4_Witness == lastOp = "close" /\ reconnectDelayMs = Ceil

\* ----------------------------------------------------------------- C5
\* C5: from the return of stop() until the page calls startLive again the
\* manager is idle: no socket, no reconnect timer, no keepalive, and no start
\* request issued since the stop().
C5_StopIsTerminal ==
  session = "none" => (NoSocket /\ NoReconnect /\ NoKeepalive /\ CurPending = 0)

\* ----------------------------------------------------------------- C6
\* the manager is idle but for one start request in flight
IdleAwaitingStart ==
  /\ PendingCount = 1
  /\ streamStartedOnce = FALSE
  /\ userStreamWS = 0
  /\ \A s \in SockIds : socks[s].st \in {"free", "closed"}
  /\ PendingTimers = {}
  /\ NoKeepalive

\* C6: when the start request of a startLive call made on an idle manager is
\* refused, no socket is opened, no keepalive is started, started stays false,
\* the indicator is fail, and nothing is left that could open a socket later.
C6_RefusedStartStaysIdle ==
  [][(IdleAwaitingStart /\ lastOp' = "startRefused") =>
       (/\ NoSocket'
        /\ NoKeepalive'
        /\ streamStartedOnce' = FALSE
        /\ Indicator' = "fail"
        /\ Quiet')]_vars

C6_Witness ==
  /\ lastOp = "startRefused"
  /\ Quiet
  /\ NoSocket
  /\ streamStartedOnce = FALSE
  /\ Indicator = "fail"

\* ----------------------------------------------------------------- C7
\* C7: a keepalive interval is created only by the step that receives the
\* positive answer of a start request; while a keepalive is active started is
\* true (an answer was positive and no stop() came since); and none is active
\* right after a refused start.
C7_KeepaliveOnlyAfterAck ==
  [][/\ (ActiveIntervals' \ ActiveIntervals # {} \/
         (keepaliveTimer' # keepaliveTimer /\ keepaliveTimer' # 0))
            => lastOp' = "startAcked"
     /\ ~NoKeepalive' => streamStartedOnce'
     /\ lastOp' = "startRefused" => NoKeepalive']_vars

C7_Witness ==
  /\ lastOp = "startAcked"
  /\ keepaliveTimer # 0
  /\ intervals[keepaliveTimer].st = "active"
  /\ streamStartedOnce

\* ----------------------------------------------------------------- C8
\* a binance_event envelope whose inner type is a balance event
Qualifies(m) ==
  /\ m.json
  /\ m.type = "binance_event"
  /\ \/ m.e \in {"outboundAccountPosition", "balanceUpdate"}
     \/ m.e = Absent /\ m.eventType \in {"outboundAccountPosition", "balanceUpdate"}

\* C8: a received envelope schedules exactly one balance refresh when it is a
\* binance_event with inner type outboundAccountPosition or balanceUpdate, and
\* none otherwise; nothing is coalesced.
C8_OneRefreshPerEvent ==
  [][\A s \in SockIds, m \in Envelopes :
       (lastOp' = MsgOp(m) /\ OnMessage(s, m)) =>
         refreshTimers' = refreshTimers + (IF Qualifies(m) THEN 1 ELSE 0)]_vars

\* two refreshes are scheduled, the second by the envelope just received
C8_Witness == lastOp = "binance_event" /\ refreshTimers = 2

\* ----------------------------------------------------------------- C9
\* C9: a status envelope sets the indicator to ok when connected is true and to
\* fail otherwise, whatever it was, and changes nothing else of the manager.
C9_StatusSetsIndicator ==
  [][\A s \in SockIds, m \in Envelopes :
       (lastOp' = "status" /\ m.json /\ m.type = "status" /\ OnMessage(s, m)) =>
         /\ Indicator' = (IF m.connected = "true" THEN "ok" ELSE "fail")
         /\ UNCHANGED <<userStreamWS, socks, userStreamReconnectTimer, timers,
                        reconnectDelayMs, streamStartedOnce, keepaliveTimer,
                        intervals, pendingStarts, refreshTimers>>]_vars

\* a status envelope has set the indicator to ok
C9_Witness ==
  /\ lastOp = "status"
  /\ Indicator = "ok"
  /\ \E s \in SockIds : socks[s].st = "open"

\* ---------------------------------------------------------------- C10
\* the states of the scenario
S0_Idle ==
  /\ Quiet /\ userStreamWS = 0 /\ userStreamReconnectTimer = 0 /\ keepaliveTimer = 0
  /\ streamStartedOnce = FALSE /\ reconnectDelayMs = Floor
S1_Requested ==
  /\ IdleAwaitingStart /\ pendingStarts[<<"testnet", "cur">>] = 1
  /\ userStreamReconnectTimer = 0 /\ reconnectDelayMs = Floor
S2_Connecting ==
  /\ streamStartedOnce /\ PendingCount = 0 /\ PendingTimers = {}
  /\ userStreamReconnectTimer = 0
  /\ keepaliveTimer # 0 /\ ActiveIntervals = {keepaliveTimer}
  /\ intervals[keepaliveTimer].env = "testnet"
  /\ userStreamWS # 0 /\ socks[userStreamWS] = [st |-> "connecting", env |-> "testnet"]
  /\ \A s \in SockIds \ {userStreamWS} : socks[s].st = "free"
  /\ reconnectDelayMs = Floor
S3_Open ==
  /\ streamStartedOnce /\ PendingCount = 0 /\ PendingTimers = {}
  /\ userStreamReconnectTimer = 0
  /\ keepaliveTimer # 0 /\ ActiveIntervals = {keepaliveTimer}
  /\ userStreamWS # 0 /\ socks[userStreamWS] = [st |-> "open", env |-> "testnet"]
  /\ \A s \in SockIds \ {userStreamWS} : socks[s].st = "free"
  /\ reconnectDelayMs = Floor
S4_Ok == S3_Open /\ Indicator = "ok"
S5_Closed ==
  /\ Indicator = "fail"
  /\ Cardinality(PendingTimers) = 1
  /\ userStreamReconnectTimer \in PendingTimers
  /\ timers[userStreamReconnectTimer].delay = FloorMs * Scale
  /\ timers[userStreamReconnectTimer].env = "testnet"
  /\ reconnectDelayMs = 2400 * Scale
  /\ LiveSocks = {}
  /\ streamStartedOnce /\ ~NoKeepalive

\* C10: from an idle manager, startLive("testnet") issues the start request
\* with the indicator pending; its positive answer arms the keepalive and
\* creates a socket, indicator pending; the socket opens; a status envelope
\* with connected = true turns the indicator ok; the close of the socket turns
\* it fail, schedules one reconnect after 1500 ms and leaves reconnectDelay at
\* 2400 ms.
C10_Scenario ==
  [][/\ (S0_Idle /\ lastOp' = "startLive")
          => (S1_Requested' /\ Indicator' = "pending")
     /\ (S1_Requested /\ lastOp' = "startAcked")
          => (S2_Connecting' /\ Indicator' = "pending")
     /\ (S2_Connecting /\ lastOp' = "open") => S3_Open'
     /\ (\A s \in SockIds :
           (S3_Open /\ lastOp' = "status" /\ OnMessage(s, [NoFields EXCEPT !.type = "status",
                                                     !.connected = "true"]))
             => S4_Ok')
     /\ (S4_Ok /\ lastOp' = "close") => S5_Closed']_vars

C10_Witness == lastOp = "close" /\ S5_Closed /\ userStreamWS # 0

\* ---------------------------------------------------------------- C11
\* the session is started, its socket is gone and a reconnect is scheduled
AwaitingReconnect ==
  /\ streamStartedOnce
  /\ LiveSocks = {}
  /\ PendingTimers # {}

\* C11: in a started session the close of the current socket schedules a
\* reconnect, and while that reconnect is awaited no step other than stop()
\* leaves the manager with nothing outstanding: either the reconnect is still
\* to come or a connection attempt was made. (A manager that falls quiet here
\* never makes the attempt, however long one waits.)
C11_ReconnectStaysScheduled ==
  [][/\ (streamStartedOnce /\ lastOp' = "close" /\ LiveSocks' = {})
          => AwaitingReconnect'
     /\ (AwaitingReconnect /\ lastOp' # "stop") => ~Quiet']_vars

\* ---------------------------------------------------------------- C12
\* The lifecycle with a caller that may pick either environment for a new
\* session (after stop()). Message dispatch neither reads nor writes env and
\* is left to Spec.
NextEnv ==
  \/ \E env \in Env : CallStartLive(env)
  \/ CallStop
  \/ \E k \in PendKinds : StartAcked(k)
  \/ \E k \in PendKinds : StartRefused(k)
  \/ \E s \in SockIds : OnOpen(s)
  \/ \E s \in SockIds : OnError(s)
  \/ \E s \in SockIds : OnClose(s)
  \/ \E t \in TimerIds : ReconnectFires(t)
  \/ \E k \in KeepaliveIds : KeepaliveTick(k)

SpecEnv == Init /\ [][NextEnv]_vars

\* C12: while a session is running, every connecting or open socket, every
\* start request of the session and every keepalive task uses the env of the
\* startLive call that began the session; nothing left over from an earlier
\* session connects with that session's env.
C12_EnvFixedPerSession ==
  session \in Env =>
    /\ \A s \in LiveSocks : socks[s].env = session
    /\ \A e \in Env : pendingStarts[<<e, "cur">>] > 0 => e = session
    /\ \A k \in ActiveIntervals : intervals[k].env = session

\* ---------------------------------------------------------------- C13
\* C13: a positive start answer sets started, started stays set until stop(),
\* and a reconnect timeout that fires while started is set issues no start
\* request: it goes straight to connecting a new socket.
C13_NoStartRequestOnReconnect ==
  [][/\ lastOp' = "startAcked" => streamStartedOnce'
     /\ (streamStartedOnce /\ lastOp' # "stop") => streamStartedOnce'
     /\ (streamStartedOnce /\ lastOp' = "reconnect") =>
          /\ pendingStarts' = pendingStarts
          /\ userStreamWS' # 0
          /\ socks'[userStreamWS'].st = "connecting"]_vars

C13_Witness ==
  /\ lastOp = "reconnect"
  /\ streamStartedOnce
  /\ PendingCount = 0
  /\ userStreamWS # 0
  /\ socks[userStreamWS].st = "connecting"

\* ---------------------------------------------------------------- C14
\* C14: a transport error event sets the indicator to fail and leaves the
\* socket handle, the reconnect timer, reconnectDelay, started and the
\* keepalive as they were; the close event of the socket that reported the
\* error schedules exactly one reconnect, with the delay of that moment, and
\* grows reconnectDelay exactly once (by 1.6, up to the ceiling).
C14_ErrorThenClose ==
  [][/\ lastOp' = "error" =>
          /\ Indicator' = "fail"
          /\ UNCHANGED <<userStreamWS, userStreamReconnectTimer, timers,
                         reconnectDelayMs, streamStartedOnce, keepaliveTimer,
                         intervals, pendingStarts>>
     /\ \A s \in SockIds :
          (socks[s].st = "errored" /\ lastOp' = "close" /\ socks'[s].st # "errored") =>
             /\ Cardinality(PendingTimers') = Cardinality(PendingTimers) + 1
             /\ userStreamReconnectTimer' \in PendingTimers' \ PendingTimers
             /\ timers'[userStreamReconnectTimer'].delay = reconnectDelayMs
             /\ reconnectDelayMs' = Min((reconnectDelayMs * 16) \div 10, CeilMs * Scale)]_vars

\* an error was reported by the open current socket of a started session
C14_Witness ==
  /\ lastOp = "error"
  /\ userStreamWS # 0
  /\ socks[userStreamWS].st = "errored"
  /\ streamStartedOnce
  /\ ~NoKeepalive
  /\ Indicator = "fail"

\* ---------------------------------------------------------------- C15
\* no socket still has a close event to deliver; onclose schedules a
\* reconnect for whichever socket it belongs to
NoReconnectToCome == \A s \in SockIds : socks[s].st \notin {"connecting", "open", "closing", "errored"}

\* C15: whenever a start request is answered false, in whatever state, the
\* manager ends idle: no keepalive, no socket, no reconnect pending and none
\* that will be scheduled later.
C15_RefusedStartEndsIdle ==
  lastOp = "startRefused" =>
    /\ NoKeepalive
    /\ NoSocket
    /\ NoReconnect
    /\ NoReconnectToCome

\* ---------------------------------------------------------------- C16
\* C16: an armed keepalive ends only by stop() or by a start request answered
\* false; a keepalive tick (whatever its outcome), a socket close, a socket
\* error and a reconnect timeout firing leave the keepalive handle and its
\* periodic task as they were.
C16_KeepaliveSurvives ==
  [][/\ (~NoKeepalive /\ NoKeepalive') => lastOp' \in {"stop", "startRefused"}
     /\ (~NoKeepalive /\ lastOp' \in {"keepalive", "close", "error", "reconnect"})
          => UNCHANGED <<keepaliveTimer, intervals>>]_vars

\* a reconnect timeout fired in a started session with its keepalive armed
C16_Witness ==
  /\ lastOp = "reconnect"
  /\ streamStartedOnce
  /\ keepaliveTimer # 0
  /\ intervals[keepaliveTimer].st = "active"
  /\ userStreamWS # 0
  /\ socks[userStreamWS].st = "connecting"

\* ---------------------------------------------------------------- C17
\* C17: at most one keepalive periodic task is active in every reachable
\* state, and it is the one the handle names, also when two overlapping
\* startLive calls both reach startKeepalive; stopKeepalive with no keepalive
\* running changes nothing.
C17_OneKeepalive ==
  [][/\ Cardinality(ActiveIntervals') <= 1
     /\ ActiveIntervals' \subseteq {keepaliveTimer'}
     /\ (NoKeepalive /\ lastOp' \in {"stop", "startRefused"})
          => UNCHANGED <<keepaliveTimer, intervals>>]_vars

\* the second of two overlapping startLive calls has armed its keepalive: the
\* interval of the first was cancelled and a new one created
C17_Witness ==
  /\ lastOp = "startAcked"
  /\ keepaliveTimer = 2
  /\ ActiveIntervals = {2}
  /\ intervals[1].st = "free"

\* ---------------------------------------------------------------- C18
\* the envelopes onmessage only logs
Ignored == {m \in Envelopes : ~m.json \/ m.type \notin {"status", "error", "binance_event"}}

\* C18: a message that does not parse, a hello envelope and an envelope with
\* a tag other than status, error and binance_event leave the indicator, the
\* socket, the timers, started and reconnectDelay as they were and schedule no
\* refresh; the socket stays open and goes on dispatching messages.
C18_IgnoredMessages ==
  [][lastOp' \in {MsgOp(m) : m \in Ignored} =>
       /\ UNCHANGED <<connDot, userStreamWS, socks, userStreamReconnectTimer, timers,
                      reconnectDelayMs, streamStartedOnce, keepaliveTimer, intervals,
                      pendingStarts, refreshTimers>>
       /\ ~MidClose'
       /\ \E s \in SockIds : socks[s].st = "open" /\ socks'[s].st = "open"]_vars

\* a message that does not parse arrived while the indicator showed ok
C18_Witness ==
  /\ lastOp = "nonjson"
  /\ Indicator = "ok"
  /\ userStreamWS # 0
  /\ socks[userStreamWS].st = "open"

\* ---------------------------------------------------------------- C19
\* C19: in every reachable state started is true exactly when a keepalive
\* periodic task is active.
C19_StartedIffKeepalive ==
  streamStartedOnce <=> (keepaliveTimer # 0 /\ ActiveIntervals # {})

\* ---------------------------------------------------------------- C20
\* C20: a reconnect timeout that fires never force-closes a socket that is
\* connecting or open; such a socket is force-closed only by stop() or by a
\* startLive call of the caller.
C20_ReconnectClosesNoLiveSocket ==
  [][lastOp' = "reconnect" =>
       \A s \in LiveSocks : socks'[s].st \in {"connecting", "open"}]_vars

====
